---- MODULE Spec2Model ----
(***************************************************************************)
(* The client flow of src/lib.rs (test_multiple_transactions and its       *)
(* helper get_program_size) as a state machine.  The ledger node is the    *)
(* environment: every RPC call is one step whose answer is drawn from a     *)
(* small set of possible answers.  The code that runs between two RPC      *)
(* calls belongs to the step of the call that precedes it.                 *)
(***************************************************************************)
EXTENDS Integers, Sequences, FiniteSets, TLC

\* ------------------------------------------------------------------ bounds
\* Longest run of bytes that follows a loader header in an account's data.
MaxTrailing == 2
\* send_transaction may fail for the first SendFailEdge indices of the batch
\* and for the last one (all combinations of them).
SendFailEdge == 1
\* Longest instruction payload handed to process_instruction.
MaxPayloadLen == 9

\* ------------------------------------------------------- program constants
NumTransactions == 100
MaxRetries == 10
RetrySleepMs == 50
PollSleepMs == 100
\* UpgradeableLoaderState::size_of_programdata_metadata(): 4 + 8 + 1 + 32
ProgramdataMetadataSize == 45
PubkeyBytes == 32

\* --------------------------------------------------------------- optionals
\* Option<T>: <<>> is None, <<x>> is Some(x).
None == <<>>
Some(x) == <<x>>
IsSome(o) == Len(o) = 1
Unwrap(o) == o[1]

\* ------------------------------------------------------------------- bytes
RECURSIVE Zeros(_)
Zeros(n) == IF n <= 0 THEN <<>> ELSE <<0>> \o Zeros(n - 1)

Take(s, n) == SubSeq(s, 1, IF n < Len(s) THEN n ELSE Len(s))

\* u64::to_le_bytes for the values the model builds (below 2^31): w bytes,
\* least significant first.
RECURSIVE ToLeBytes(_, _)
ToLeBytes(n, w) == IF w = 0 THEN <<>> ELSE <<n % 256>> \o ToLeBytes(n \div 256, w - 1)

\* usize values are kept as their 8 little-endian bytes, so that a wrapped
\* subtraction (2^64 - d) has a representation.
USize(n) == ToLeBytes(n, 8)

\* a - b on w little-endian bytes with borrow: <<bytes, borrow_out>>.
RECURSIVE SubLeBytes(_, _, _)
SubLeBytes(a, b, borrow) ==
    IF Len(a) = 0 THEN <<(<<>>), borrow>>
    ELSE LET d == a[1] - b[1] - borrow
             digit == IF d < 0 THEN d + 256 ELSE d
             rest == SubLeBytes(Tail(a), Tail(b), IF d < 0 THEN 1 ELSE 0)
         IN <<(<<digit>> \o rest[1]), rest[2]>>

\* ----------------------------------------------------------------- results
\* Result<T, E>
Ok(v) == [ok |-> TRUE, val |-> v]
Err(e) == [ok |-> FALSE, val |-> e]

\* The three ways get_program_size fails: a ClientError of the RPC client
\* (the ? of get_account), a bincode error (the ? of deserialize) and a
\* string message turned into Box<dyn Error> by .into().
ClientError == [kind |-> "ClientError", msg |-> "rpc"]
BincodeError == [kind |-> "bincode", msg |-> "decode"]
StrError(m) == [kind |-> "str", msg |-> m]

\* ------------------------------------------------------------- identities
\* A Pubkey is 32 bytes; the model's addresses differ in their first byte.
Addr(a) == <<a>> \o Zeros(PubkeyBytes - 1)
\* Pubkey::from_str(program_id) of the fixed, well-formed program id.
ProgramPubkey == Addr(1)
\* Owners an account answer can carry.
BpfLoaderId == "BPFLoader2111111111111111111111111111111111"
BpfLoaderUpgradeableId == "BPFLoaderUpgradeab1e11111111111111111111111"
SystemProgramId == "11111111111111111111111111111111"
Owners == {BpfLoaderId, BpfLoaderUpgradeableId, SystemProgramId}

\* -------------------------------------------------- loader state (bincode)
Uninitialized == [variant |-> "Uninitialized", address |-> None, slot |-> 0]
Buffer(authority) == [variant |-> "Buffer", address |-> authority, slot |-> 0]
Program(programdata_address) ==
    [variant |-> "Program", address |-> Some(programdata_address), slot |-> 0]
ProgramData(slot, upgrade_authority_address) ==
    [variant |-> "ProgramData", address |-> upgrade_authority_address, slot |-> slot]

\* bincode's fixed-width encoding of UpgradeableLoaderState: a u32
\* little-endian variant index, then the fields in order; Option<Pubkey> is
\* one byte 0 or 1, followed by the 32 bytes when it is 1.
EncodeOption(o) == IF IsSome(o) THEN <<1>> \o Unwrap(o) ELSE <<0>>
Serialize(state) ==
    CASE state.variant = "Uninitialized" -> ToLeBytes(0, 4)
      [] state.variant = "Buffer" -> ToLeBytes(1, 4) \o EncodeOption(state.address)
      [] state.variant = "Program" -> ToLeBytes(2, 4) \o Unwrap(state.address)
      [] state.variant = "ProgramData" ->
            ToLeBytes(3, 4) \o ToLeBytes(state.slot, 8) \o EncodeOption(state.address)

\* u64::from_le_bytes for values below 2^31 (the model's slots are small).
RECURSIVE FromLeBytes(_)
FromLeBytes(b) == IF Len(b) = 0 THEN 0 ELSE b[1] + 256 * FromLeBytes(Tail(b))

\* Reads an Option<Pubkey> at 1-based offset at: Ok(option) or Err.
DecodeOption(data, at) ==
    IF Len(data) < at THEN Err(BincodeError)
    ELSE IF data[at] = 0 THEN Ok(None)
    ELSE IF data[at] = 1 THEN
        IF Len(data) < at + PubkeyBytes THEN Err(BincodeError)
        ELSE Ok(Some(SubSeq(data, at + 1, at + PubkeyBytes)))
    ELSE Err(BincodeError)

\* bincode::deserialize::<UpgradeableLoaderState>(data): bytes after the
\* decoded value are allowed and ignored.
Deserialize(data) ==
    IF Len(data) < 4 THEN Err(BincodeError)
    ELSE IF data[2] # 0 \/ data[3] # 0 \/ data[4] # 0 THEN Err(BincodeError)
    ELSE CASE data[1] = 0 -> Ok(Uninitialized)
           [] data[1] = 1 ->
                LET o == DecodeOption(data, 5)
                IN IF o.ok THEN Ok(Buffer(o.val)) ELSE o
           [] data[1] = 2 ->
                IF Len(data) < 4 + PubkeyBytes THEN Err(BincodeError)
                ELSE Ok(Program(SubSeq(data, 5, 4 + PubkeyBytes)))
           [] data[1] = 3 ->
                IF Len(data) < 12 THEN Err(BincodeError)
                ELSE LET o == DecodeOption(data, 13)
                     IN IF o.ok
                        THEN Ok(ProgramData(FromLeBytes(SubSeq(data, 5, 12)), o.val))
                        ELSE o
           [] OTHER -> Err(BincodeError)

\* ------------------------------------------------- answers of get_account
\* Loader records the node may hold, well formed.
LoaderStates ==
    {Uninitialized, Buffer(None), Program(Addr(2)), Program(ProgramPubkey),
     ProgramData(7, None), ProgramData(7, Some(Addr(3)))}
\* Headers: the encodings above, an unknown variant index, a bad option byte,
\* and the first bytes of an ELF image (what the immutable loader stores).
Headers ==
    {Serialize(s) : s \in LoaderStates}
        \cup {ToLeBytes(4, 4), ToLeBytes(3, 4) \o ToLeBytes(7, 8) \o <<2>>,
              <<127, 69, 76, 70>>, <<3, 1, 0, 0>>}
\* A header followed by 0..MaxTrailing bytes, or by the 32 bytes that pad a
\* ProgramData record without authority to the metadata size and then
\* 0..MaxTrailing bytes of bytecode.
TrailingLens == (0 .. MaxTrailing) \cup {PubkeyBytes + k : k \in 0 .. MaxTrailing}
\* Truncated data: the first bytes of a header.
TruncatedLens == {0, 3, 5, 12, 20, 44}
DataChoices ==
    {h \o Zeros(t) : h \in Headers, t \in TrailingLens}
        \cup {Take(h, n) : h \in Headers, n \in TruncatedLens}
Accounts == [owner : Owners, data : DataChoices]

\* --------------------------------------------------------------- log lines
Info(msg, args) == [level |-> "info", msg |-> msg, args |-> args]
Warn(msg, args) == [level |-> "warn", msg |-> msg, args |-> args]

\* ------------------------------------------------------------------- state
VARIABLES
    pc,                   \* position of the single flow of control
    \* get_program_size
    program_account,      \* Option: answer of the first get_account
    programdata_address,  \* Option: address decoded from the Program record
    program_data_account, \* Option: answer of the second get_account
    size_result,          \* Option: what get_program_size returned
    fetches,              \* addresses get_program_size asked get_account for
    decodes,              \* number of bincode::deserialize calls made
    \* funding poll
    airdrop_signature,    \* Option
    confirm_result,       \* Option: answer of confirm_transaction, this iteration
    balance,              \* Option: value of the last successful get_balance
    \* batch submission
    recent_blockhash,     \* Option
    blockhash_fetches,    \* number of get_latest_blockhash calls made
    i,                    \* loop variable of the send loop
    sent,                 \* (transaction, answer) of every send_transaction call
    signatures,           \* Vec<(index, signature)>
    \* verification
    consumed,             \* number of records the verify loop has taken
    current,              \* Option: the (i, signature) being verified
    retries,
    tx_details,           \* Option
    lookups,              \* answers (ok or not) of the get_transaction calls
                          \* made for the current record, in order
    item_slept,           \* milliseconds slept for the current record
    \* what the last step did
    emitted,              \* log lines written by the last step
    slept,                \* milliseconds the last step slept
    failure,              \* Option: the failed call the last step dealt with
    \* process_instruction, the on-chain entrypoint
    program_pc,           \* "idle", "entry", "returned" or "panicked"
    instruction_data,     \* its payload
    accounts,             \* its account list
    counter,              \* Option: the decoded counter
    program_log,          \* lines written by msg!
    program_result,       \* Option: the ProgramResult returned
    account_accesses      \* indices of the accounts it has read or written

resolverVars ==
    <<program_account, programdata_address, program_data_account, size_result,
      fetches, decodes>>
fundingVars == <<airdrop_signature, confirm_result, balance>>
batchVars == <<recent_blockhash, blockhash_fetches, i, sent, signatures>>
verifyVars == <<consumed, current, retries, tx_details, lookups, item_slept>>
programVars ==
    <<program_pc, instruction_data, accounts, counter, program_log, program_result,
      account_accesses>>
flowVars ==
    <<pc, resolverVars, fundingVars, batchVars, verifyVars, emitted, slept, failure>>
vars ==
    <<pc, resolverVars, fundingVars, batchVars, verifyVars, emitted, slept, failure,
      programVars>>

\* A failed call and its error.
Failed(call, error) == [call |-> call, error |-> error]

\* The client flow before its first step.
FlowInit ==
    /\ pc = "resolve_program"
    /\ program_account = None
    /\ programdata_address = None
    /\ program_data_account = None
    /\ size_result = None
    /\ fetches = <<>>
    /\ decodes = 0
    /\ airdrop_signature = None
    /\ confirm_result = None
    /\ balance = None
    /\ recent_blockhash = None
    /\ blockhash_fetches = 0
    /\ i = 0
    /\ sent = <<>>
    /\ signatures = <<>>
    /\ consumed = 0
    /\ current = None
    /\ retries = 0
    /\ tx_details = None
    /\ lookups = <<>>
    /\ item_slept = 0
    /\ emitted = <<>>
    /\ slept = 0
    /\ failure = None

\* The client flow starts; the on-chain program is not running.
Init ==
    /\ FlowInit
    /\ program_pc = "idle"
    /\ instruction_data = <<>>
    /\ accounts = <<>>
    /\ counter = None
    /\ program_log = <<>>
    /\ program_result = None
    /\ account_accesses = {}

\* ------------------------------------------------------- get_program_size
\* Faulty variant: the metadata size taken off the immutable loader's data too.
ImmutableSizesLessHeader(account) ==
    <<SubLeBytes(USize(Len(account.data)), USize(ProgramdataMetadataSize), 0)[1],
      USize(Len(account.data))>>

\* The immutable loader's branch: both sizes are the data length.
ImmutableSizes(account) == <<USize(Len(account.data)), USize(Len(account.data))>>

\* program_data_account.data.len() - metadata_size on usize.  When the data
\* is shorter than the metadata the subtraction overflows: a build with
\* overflow checks panics, a build without them wraps modulo 2^64.
ProgramDataSizes(account, overflow_checks) ==
    LET len == Len(account.data)
        diff == SubLeBytes(USize(len), USize(ProgramdataMetadataSize), 0)
    IN IF diff[2] = 1 /\ overflow_checks
       THEN [panic |-> TRUE, val |-> <<>>]
       ELSE [panic |-> FALSE, val |-> <<diff[1], USize(len)>>]

\* Faulty variant: the account is decoded before its owner is looked at.
AfterProgramFetchDecodingFirst(account) ==
    LET state == Deserialize(account.data)
    IN IF account.owner = BpfLoaderId
       THEN [next |-> "return", result |-> Ok(ImmutableSizes(account)),
             address |-> None, decoded |-> 1]
       ELSE IF ~state.ok
       THEN [next |-> "return", result |-> Err(state.val),
             address |-> None, decoded |-> 1]
       ELSE IF account.owner # BpfLoaderUpgradeableId
       THEN [next |-> "return", result |-> Err(StrError("Not a BPF program")),
             address |-> None, decoded |-> 1]
       ELSE IF state.val.variant = "Program"
       THEN [next |-> "fetch", result |-> Err(ClientError),
             address |-> state.val.address, decoded |-> 1]
       ELSE [next |-> "return", result |-> Err(StrError("Not a program account")),
             address |-> None, decoded |-> 1]

\* Faulty variant: a record that is no Program gets the message of the
\* unsupported owner.
AfterProgramFetchOneMessage(account) ==
    IF account.owner = BpfLoaderId
    THEN [next |-> "return", result |-> Ok(ImmutableSizes(account)),
          address |-> None, decoded |-> 0]
    ELSE IF account.owner = BpfLoaderUpgradeableId
    THEN LET state == Deserialize(account.data)
         IN IF ~state.ok
            THEN [next |-> "return", result |-> Err(state.val),
                  address |-> None, decoded |-> 1]
            ELSE IF state.val.variant = "Program"
            THEN [next |-> "fetch", result |-> Err(ClientError),
                  address |-> state.val.address, decoded |-> 1]
            ELSE [next |-> "return", result |-> Err(StrError("Not a BPF program")),
                  address |-> None, decoded |-> 1]
    ELSE [next |-> "return", result |-> Err(StrError("Not a BPF program")),
          address |-> None, decoded |-> 0]

\* The code that follows the first get_account, up to the second get_account
\* or the return.  next is "return" (with result) or "fetch" (with address).
AfterProgramFetch(account) ==
    IF account.owner = BpfLoaderId
    THEN [next |-> "return", result |-> Ok(ImmutableSizes(account)),
          address |-> None, decoded |-> 0]
    ELSE IF account.owner = BpfLoaderUpgradeableId
    THEN LET state == Deserialize(account.data)
         IN IF ~state.ok
            THEN [next |-> "return", result |-> Err(state.val),
                  address |-> None, decoded |-> 1]
            ELSE IF state.val.variant = "Program"
            THEN [next |-> "fetch", result |-> Err(ClientError),
                  address |-> state.val.address, decoded |-> 1]
            ELSE [next |-> "return", result |-> Err(StrError("Not a program account")),
                  address |-> None, decoded |-> 1]
    ELSE [next |-> "return", result |-> Err(StrError("Not a BPF program")),
          address |-> None, decoded |-> 0]

\* The code that follows the second get_account, up to the return or panic.
AfterProgramDataFetch(account, overflow_checks) ==
    LET program_data == Deserialize(account.data)
    IN IF ~program_data.ok
       THEN [panic |-> FALSE, result |-> Err(program_data.val)]
       ELSE IF program_data.val.variant = "ProgramData"
       THEN LET sizes == ProgramDataSizes(account, overflow_checks)
            IN [panic |-> sizes.panic, result |-> Ok(sizes.val)]
       ELSE [panic |-> FALSE, result |-> Err(StrError("Invalid program data account"))]

\* rpc_client.get_account(&program_pubkey)? and what follows it.
FetchProgramAccount ==
    /\ pc = "resolve_program"
    /\ fetches' = Append(fetches, ProgramPubkey)
    /\ \/ /\ program_account' = None
          /\ size_result' = Some(Err(ClientError))
          /\ pc' = "size_match"
          /\ UNCHANGED <<programdata_address, decodes>>
       \/ \E account \in Accounts :
            LET r == AfterProgramFetch(account)
            IN /\ program_account' = Some(account)
               /\ decodes' = decodes + r.decoded
               /\ programdata_address' = r.address
               /\ IF r.next = "fetch"
                  THEN /\ pc' = "resolve_programdata"
                       /\ UNCHANGED size_result
                  ELSE /\ pc' = "size_match"
                       /\ size_result' = Some(r.result)
    /\ emitted' = <<>>
    /\ slept' = 0
    /\ failure' = None
    /\ UNCHANGED <<program_data_account, fundingVars, batchVars, verifyVars,
                   programVars>>

\* rpc_client.get_account(&programdata_address)? and what follows it.
FetchProgramDataAccount ==
    /\ pc = "resolve_programdata"
    /\ fetches' = Append(fetches, Unwrap(programdata_address))
    /\ \/ /\ program_data_account' = None
          /\ size_result' = Some(Err(ClientError))
          /\ pc' = "size_match"
          /\ UNCHANGED decodes
       \/ \E account \in Accounts, overflow_checks \in BOOLEAN :
            LET r == AfterProgramDataFetch(account, overflow_checks)
            IN /\ program_data_account' = Some(account)
               /\ decodes' = decodes + 1
               /\ IF r.panic
                  THEN /\ pc' = "panicked"
                       /\ UNCHANGED size_result
                  ELSE /\ pc' = "size_match"
                       /\ size_result' = Some(r.result)
    /\ emitted' = <<>>
    /\ slept' = 0
    /\ failure' = None
    /\ UNCHANGED <<program_account, programdata_address, fundingVars, batchVars,
                   verifyVars, programVars>>

\* match get_program_size(..) in the caller: two info lines or one warning.
\* The resolver's locals are gone after it.
\* Faulty variant: a failed resolution is dropped without a line.
SizeLinesSilentOnError(result) ==
    IF result.ok
    THEN <<Info("Program data size: {} bytes", <<result.val[1]>>),
           Info("Total account size: {} bytes", <<result.val[2]>>)>>
    ELSE <<>>

SizeLines(result) ==
    IF result.ok
    THEN <<Info("Program data size: {} bytes", <<result.val[1]>>),
           Info("Total account size: {} bytes", <<result.val[2]>>)>>
    ELSE <<Warn("Failed to get program size: {}", <<result.val>>)>>

MatchProgramSize ==
    /\ pc = "size_match"
    /\ emitted' = SizeLines(Unwrap(size_result))
    /\ failure' = IF Unwrap(size_result).ok THEN None
                  ELSE Some(Failed("get_program_size", Unwrap(size_result).val))
    /\ slept' = 0
    /\ pc' = "request_airdrop"
    /\ program_account' = None
    /\ programdata_address' = None
    /\ program_data_account' = None
    /\ size_result' = None
    /\ fetches' = <<>>
    /\ decodes' = 0
    /\ UNCHANGED <<fundingVars, batchVars, verifyVars, programVars>>

\* ------------------------------------------------------------ funding poll
Payer == "payer"
AirdropSignature == "airdrop"
\* Answers of get_balance, in lamports.
BalanceValues == {0, 1000000000}

\* info!("Requesting airdrop ..") and request_airdrop(..).unwrap().
RequestAirdrop ==
    /\ pc = "request_airdrop"
    /\ emitted' = <<Info("Requesting airdrop for {}", <<Payer>>)>>
    /\ slept' = 0
    /\ \/ /\ airdrop_signature' = Some(AirdropSignature)
          /\ pc' = "confirm"
          /\ failure' = None
       \/ /\ pc' = "panicked"
          /\ failure' = Some(Failed("request_airdrop", ClientError))
          /\ UNCHANGED airdrop_signature
    /\ UNCHANGED <<resolverVars, confirm_result, balance, batchVars, verifyVars,
                   programVars>>

\* if let Ok(_) = confirm_transaction(..): any Ok passes, Ok(false) too.
ConfirmPasses(answer) == answer.ok

\* loop { if let Ok(_) = rpc_client.confirm_transaction(&airdrop_signature) ..
ConfirmTransaction ==
    /\ pc = "confirm"
    /\ \E answer \in {Ok(TRUE), Ok(FALSE), Err(ClientError)} :
         /\ IF ConfirmPasses(answer)
            THEN /\ confirm_result' = Some(answer)
                 /\ pc' = "get_balance"
                 /\ slept' = 0
            ELSE /\ confirm_result' = None
                 /\ pc' = "confirm"
                 /\ slept' = PollSleepMs
         /\ failure' = IF answer.ok THEN None
                       ELSE Some(Failed("confirm_transaction", answer.val))
    /\ emitted' = <<>>
    /\ UNCHANGED <<resolverVars, airdrop_signature, balance, batchVars, verifyVars,
                   programVars>>

\* Faulty variant: the loop left on any successful balance read (balance >= 0).
LeavesFundingLoopOnAnyBalance(value) == value >= 0

\* Faulty variant: the loop is left only on more than the airdropped amount.
LeavesFundingLoopAboveAirdrop(value) == value > 1000000000

\* if balance > 0 { .. break; }
LeavesFundingLoop(value) == value > 0

\* if let Ok(balance) = rpc_client.get_balance(..) inside the confirmed arm.
GetBalance ==
    /\ pc = "get_balance"
    /\ \/ \E value \in BalanceValues :
            /\ balance' = Some(value)
            /\ failure' = None
            /\ IF LeavesFundingLoop(value)
               THEN /\ emitted' = <<Info("Airdrop confirmed! Balance: {}", <<value>>)>>
                    /\ slept' = 0
                    /\ pc' = "get_blockhash"
               ELSE /\ emitted' = <<>>
                    /\ slept' = PollSleepMs
                    /\ pc' = "confirm"
       \/ /\ emitted' = <<>>
          /\ slept' = PollSleepMs
          /\ pc' = "confirm"
          /\ failure' = Some(Failed("get_balance", ClientError))
          /\ UNCHANGED balance
    /\ confirm_result' = None
    /\ UNCHANGED <<resolverVars, airdrop_signature, batchVars, verifyVars,
                   programVars>>

\* ------------------------------------------------------- batch submission
Blockhashes == {"hashA", "hashB"}

\* Vec::with_capacity(100) and get_latest_blockhash().unwrap().
GetLatestBlockhash ==
    /\ pc = "get_blockhash"
    /\ blockhash_fetches' = blockhash_fetches + 1
    /\ \/ \E hash \in Blockhashes :
            /\ recent_blockhash' = Some(hash)
            /\ pc' = "send"
            /\ failure' = None
       \/ /\ pc' = "panicked"
          /\ failure' = Some(Failed("get_latest_blockhash", ClientError))
          /\ UNCHANGED recent_blockhash
    /\ i' = 0
    /\ signatures' = <<>>
    /\ emitted' = <<>>
    /\ slept' = 0
    /\ UNCHANGED <<resolverVars, fundingVars, sent, verifyVars, programVars>>

\* Faulty variant: the counter encoded most significant byte first (to_be_bytes).
InstructionDataBigEndian(index) ==
    [k \in 1 .. 8 |-> ToLeBytes(index, 8)[9 - k]]

\* (i as u64).to_le_bytes().to_vec()
InstructionData(index) == ToLeBytes(index, 8)

\* Instruction::new_with_bytes, Message::new_with_blockhash, Transaction::new
BuildTransaction(index, blockhash) ==
    [program_id |-> ProgramPubkey, instruction_data |-> InstructionData(index),
     payer |-> Payer, recent_blockhash |-> blockhash]

\* The signature send_transaction answers with: the payer's signature of
\* the message, a function of the message.
SignatureOf(transaction) ==
    [signer |-> transaction.payer, blockhash |-> transaction.recent_blockhash,
     data |-> transaction.instruction_data]

\* Indices whose send the node may refuse.
CanFail(index) == index < SendFailEdge \/ index = NumTransactions - 1

\* Faulty variant: the Err arm of the send loop writes no log line.
AfterSendUnlogged(index, answer, records) ==
    IF answer.ok
    THEN [lines |-> <<Info("Transaction {} sent: {}", <<index, answer.val>>)>>,
          records |-> Append(records, <<index, answer.val>>)]
    ELSE [lines |-> <<>>, records |-> records]

\* Faulty variant: the record carries the number of records so far, not i.
AfterSendCounting(index, answer, records) ==
    IF answer.ok
    THEN [lines |-> <<Info("Transaction {} sent: {}", <<index, answer.val>>)>>,
          records |-> Append(records, <<Len(records), answer.val>>)]
    ELSE [lines |-> <<Warn("Failed to send transaction {}: {}", <<index, answer.val>>)>>,
          records |-> records]

\* What the send loop does with the answer of send_transaction for index.
\* Ok: one info line and a push; Err: one warning, nothing pushed.
AfterSend(index, answer, records) ==
    IF answer.ok
    THEN [lines |-> <<Info("Transaction {} sent: {}", <<index, answer.val>>)>>,
          records |-> Append(records, <<index, answer.val>>)]
    ELSE [lines |-> <<Warn("Failed to send transaction {}: {}", <<index, answer.val>>)>>,
          records |-> records]

\* Faulty variant: every iteration fetches the latest blockhash again.
SendTransactionRefetching ==
    /\ pc = "send"
    /\ i < NumTransactions
    /\ \E hash \in Blockhashes :
         LET transaction == BuildTransaction(i, hash)
         IN \E answer \in {Ok(SignatureOf(transaction))}
                              \cup (IF CanFail(i) THEN {Err(ClientError)} ELSE {}) :
              LET r == AfterSend(i, answer, signatures)
              IN /\ sent' = Append(sent, [transaction |-> transaction,
                                          answer |-> answer])
                 /\ emitted' = r.lines
                 /\ signatures' = r.records
                 /\ recent_blockhash' = Some(hash)
                 /\ failure' = IF answer.ok THEN None
                               ELSE Some(Failed("send_transaction", answer.val))
    /\ blockhash_fetches' = blockhash_fetches + 1
    /\ i' = i + 1
    /\ slept' = 0
    /\ pc' = "send"
    /\ UNCHANGED <<resolverVars, fundingVars, verifyVars, programVars>>

\* One iteration of for i in 0..100 with the blockhash fetched before it.
SendTransaction ==
    /\ pc = "send"
    /\ i < NumTransactions
    /\ LET transaction == BuildTransaction(i, Unwrap(recent_blockhash))
       IN \E answer \in {Ok(SignatureOf(transaction))}
                           \cup (IF CanFail(i) THEN {Err(ClientError)} ELSE {}) :
            LET r == AfterSend(i, answer, signatures)
            IN /\ sent' = Append(sent, [transaction |-> transaction, answer |-> answer])
               /\ emitted' = r.lines
               /\ signatures' = r.records
               /\ failure' = IF answer.ok THEN None
                             ELSE Some(Failed("send_transaction", answer.val))
    /\ i' = i + 1
    /\ slept' = 0
    /\ pc' = "send"
    /\ UNCHANGED <<resolverVars, fundingVars, recent_blockhash, blockhash_fetches,
                   verifyVars, programVars>>

\* Faulty variant: the loop is left as soon as one send has been attempted.
FinishSendEarly ==
    /\ pc = "send"
    /\ i >= 1
    /\ emitted' = <<Info("All transactions sent, now verifying...", <<>>)>>
    /\ slept' = 0
    /\ pc' = "verify_next"
    /\ failure' = None
    /\ UNCHANGED <<resolverVars, fundingVars, batchVars, verifyVars, programVars>>

\* The loop is over: info!("All transactions sent, now verifying...").
FinishSend ==
    /\ pc = "send"
    /\ i = NumTransactions
    /\ emitted' = <<Info("All transactions sent, now verifying...", <<>>)>>
    /\ slept' = 0
    /\ pc' = "verify_next"
    /\ failure' = None
    /\ UNCHANGED <<resolverVars, fundingVars, batchVars, verifyVars, programVars>>

\* ------------------------------------------------------------ verification
\* OptionSerializer<u64>
ComputeUnitValues == {150}
OptionSerializers ==
    {<<"None">>, <<"Skip">>} \cup {<<"Some", cu>> : cu \in ComputeUnitValues}
\* meta: err tells whether the instruction failed on chain.
Metas == [err : BOOLEAN, compute_units_consumed : OptionSerializers]
TransactionDetails == [meta : {None} \cup {Some(m) : m \in Metas}]

\* for (i, signature) in signatures: the next record, or the end.
NextRecord ==
    /\ pc = "verify_next"
    /\ IF consumed < Len(signatures)
       THEN /\ current' = Some(signatures[consumed + 1])
            /\ consumed' = consumed + 1
            /\ retries' = MaxRetries
            /\ pc' = "lookup"
       ELSE /\ current' = None
            /\ retries' = 0
            /\ pc' = "done"
            /\ UNCHANGED consumed
    /\ tx_details' = None
    /\ lookups' = <<>>
    /\ item_slept' = 0
    /\ emitted' = <<>>
    /\ slept' = 0
    /\ failure' = None
    /\ UNCHANGED <<resolverVars, fundingVars, batchVars, programVars>>

\* if let Some(details) = tx_details { if let Some(meta) = .. { match .. } }
ReportLines(index, details) ==
    IF IsSome(details)
    THEN IF IsSome(Unwrap(details).meta)
         THEN LET cu == Unwrap(Unwrap(details).meta).compute_units_consumed
              IN IF cu[1] = "Some"
                 THEN <<Info("Transaction {} (counter: {}): Compute Units used: {}",
                             <<index + 1, index, cu[2]>>)>>
                 ELSE <<Warn("Transaction {}: Compute units not available",
                             <<index + 1>>)>>
         ELSE <<>>
    ELSE <<>>

\* Faulty variant: the Ok arm stores the details and does not break.
AfterLookupWithoutBreak(answer, left, details) ==
    IF answer.ok
    THEN [tx_details |-> Some(answer.val), retries |-> left - 1, sleep |-> 0,
          again |-> left - 1 > 0]
    ELSE [tx_details |-> details, retries |-> left - 1, sleep |-> RetrySleepMs,
          again |-> left - 1 > 0]

\* One pass of while retries > 0 { match get_transaction(..) { .. } }:
\* Ok stores the details and breaks; Err sleeps, decrements retries and
\* goes round again while retries > 0.
AfterLookup(answer, left, details) ==
    IF answer.ok
    THEN [tx_details |-> Some(answer.val), retries |-> left, sleep |-> 0,
          again |-> FALSE]
    ELSE [tx_details |-> details, retries |-> left - 1, sleep |-> RetrySleepMs,
          again |-> left - 1 > 0]

\* get_transaction(&signature, ..) for the current record and what follows
\* it: the next pass, or the report after the loop.
GetTransaction ==
    /\ pc = "lookup"
    /\ \E answer \in {Ok(details) : details \in TransactionDetails}
                        \cup {Err(ClientError)} :
         LET r == AfterLookup(answer, retries, tx_details)
         IN /\ lookups' = Append(lookups, answer.ok)
            /\ failure' = IF answer.ok THEN None
                          ELSE Some(Failed("get_transaction", answer.val))
            /\ tx_details' = r.tx_details
            /\ retries' = r.retries
            /\ slept' = r.sleep
            /\ item_slept' = item_slept + r.sleep
            /\ IF r.again
               THEN /\ pc' = "lookup"
                    /\ emitted' = <<>>
               ELSE /\ pc' = "verify_next"
                    /\ emitted' = ReportLines(Unwrap(current)[1], r.tx_details)
    /\ UNCHANGED <<resolverVars, fundingVars, batchVars, consumed, current,
                   programVars>>

\* ------------------------------------------------------ process_instruction
\* Byte values a payload is made of.
PayloadBytes == {0, 1, 255}
RECURSIVE SeqsOfLen(_, _)
SeqsOfLen(S, n) ==
    IF n = 0 THEN {<<>>}
    ELSE {<<x>> \o rest : x \in S, rest \in SeqsOfLen(S, n - 1)}
Payloads == UNION {SeqsOfLen(PayloadBytes, n) : n \in 0 .. MaxPayloadLen}
\* Account lists the runtime can pass: none, or one account.
AccountLists == {<<>>, <<[lamports |-> 1, data |-> <<7>>]>>}

\* The runtime calls the entrypoint with some payload and some accounts.
ProgramInit ==
    /\ FlowInit
    /\ program_pc = "entry"
    /\ instruction_data \in Payloads
    /\ accounts \in AccountLists
    /\ counter = None
    /\ program_log = <<>>
    /\ program_result = None
    /\ account_accesses = {}

\* Faulty variant: a range that is cut to the length of the slice.
GetUpToClamped(data, n) == Some(Take(data, n))

\* <[u8]>::get(..n): the first n bytes, or None when there are fewer.
GetUpTo(data, n) == IF Len(data) >= n THEN Some(SubSeq(data, 1, n)) ELSE None

\* <[u8; 8]>::try_from(slice): Ok only for a slice of exactly 8 bytes.
TryIntoArray8(slice) == IF Len(slice) = 8 THEN Ok(slice) ELSE Err("TryFromSliceError")

\* Faulty variant: the first byte is taken as the most significant one.
U64FromBeBytes(b) ==
    <<b[1] * 256 + b[2], b[3] * 256 + b[4], b[5] * 256 + b[6], b[7] * 256 + b[8]>>

\* u64::from_le_bytes.  A u64 is kept as four 16-bit limbs, the most
\* significant first.
U64FromLeBytes(b) ==
    <<b[8] * 256 + b[7], b[6] * 256 + b[5], b[4] * 256 + b[3], b[2] * 256 + b[1]>>
\* The u64 literal 0 of unwrap_or(0).
U64Zero == <<0, 0, 0, 0>>

\* instruction_data.get(..8).map(|slice| u64::from_le_bytes(
\* slice.try_into().unwrap())).unwrap_or(0): the closure runs only on Some,
\* and its unwrap panics on Err.
DecodeCounter ==
    /\ program_pc = "entry"
    /\ LET prefix == GetUpTo(instruction_data, 8)
       IN IF IsSome(prefix)
          THEN LET array == TryIntoArray8(Unwrap(prefix))
               IN IF array.ok
                  THEN /\ counter' = Some(U64FromLeBytes(array.val))
                       /\ program_pc' = "decoded"
                  ELSE /\ program_pc' = "panicked"
                       /\ UNCHANGED counter
          ELSE /\ counter' = Some(U64Zero)
               /\ program_pc' = "decoded"
    /\ UNCHANGED <<instruction_data, accounts, program_log, program_result,
                   account_accesses, flowVars>>

\* msg!("Count: {}", counter)
LogCount ==
    /\ program_pc = "decoded"
    /\ program_log' = Append(program_log, [msg |-> "Count: {}", args |-> <<Unwrap(counter)>>])
    /\ program_pc' = "logged"
    /\ UNCHANGED <<instruction_data, accounts, counter, program_result,
                   account_accesses, flowVars>>

\* Ok(())
ReturnOk ==
    /\ program_pc = "logged"
    /\ program_result' = Some(Ok(<<>>))
    /\ program_pc' = "returned"
    /\ UNCHANGED <<instruction_data, accounts, counter, program_log,
                   account_accesses, flowVars>>

ProgramNext ==
    \/ DecodeCounter
    \/ LogCount
    \/ ReturnOk

ProgramSpec == ProgramInit /\ [][ProgramNext]_vars

\* ---------------------------------------------------------- specification
Next ==
    \/ FetchProgramAccount
    \/ FetchProgramDataAccount
    \/ MatchProgramSize
    \/ RequestAirdrop
    \/ ConfirmTransaction
    \/ GetBalance
    \/ GetLatestBlockhash
    \/ SendTransaction
    \/ FinishSend
    \/ NextRecord
    \/ GetTransaction

Spec == Init /\ [][Next]_vars

\* The flow under the assumptions that every node call returns (the flow
\* always takes its next step) and that the confirmation check and the
\* balance read do not fail for ever: a poll iteration whose check passes,
\* and one whose balance read is above zero, cannot stay possible again and
\* again without happening.
ConfirmSucceeds == ConfirmTransaction /\ pc' = "get_balance"
BalanceIsPositive == GetBalance /\ pc' = "get_blockhash"
LiveSpec ==
    /\ Init
    /\ [][Next]_vars
    /\ WF_vars(Next)
    /\ SF_vars(ConfirmSucceeds)
    /\ SF_vars(BalanceIsPositive)

\* ------------------------------------------------------------------ claims
\* The send loop is over.
SendLoopFinished == pc \in {"verify_next", "lookup", "done"}
\* The states in which the whole batch is inspected: every state of the send
\* loop, the state in which the loop has just finished, and the end of the
\* flow.  The verification steps in between leave sent and signatures
\* alone (C8 checks that no step changes an existing record).
InSendLoop == pc = "send"
AfterSendLoop == (pc = "verify_next" /\ consumed = 0) \/ pc = "done"
EverySendSucceeded == \A k \in 1 .. Len(sent) : sent[k].answer.ok
\* Byte j (1-based) of the little-endian encoding of n, for n < 2^24.
ByteOf(n, j) ==
    IF j = 1 THEN n % 256
    ELSE IF j = 2 THEN (n \div 256) % 256
    ELSE IF j = 3 THEN (n \div 65536) % 256
    ELSE 0
\* bytes is the 8-byte little-endian encoding of n.
LittleEndian8(bytes, n) == Len(bytes) = 8 /\ \A j \in 1 .. 8 : bytes[j] = ByteOf(n, j)
RecordIndices == {signatures[k][1] : k \in 1 .. Len(signatures)}
SucceededIndices == {k - 1 : k \in {j \in 1 .. Len(sent) : sent[j].answer.ok}}

\* C1: when every send_transaction call succeeds, after the send loop there
\* are exactly 100 records, their indices are exactly 0..99 without
\* duplicates, and the payload sent for index i is the 8-byte little-endian
\* encoding of i.
C1_AllSucceed ==
    (AfterSendLoop /\ EverySendSucceeded) =>
        /\ Len(signatures) = NumTransactions
        /\ RecordIndices = 0 .. (NumTransactions - 1)
        /\ \A j, k \in 1 .. Len(signatures) :
             j # k => signatures[j][1] # signatures[k][1]
        /\ \A k \in 1 .. Len(signatures) :
             LET index == signatures[k][1]
             IN /\ LittleEndian8(sent[index + 1].transaction.instruction_data, index)
                /\ sent[index + 1].answer = Ok(signatures[k][2])
C1_Witness ==
    pc = "done" /\ EverySendSucceeded /\ Len(sent) = NumTransactions
        /\ Len(signatures) = NumTransactions

\* C2: whatever sends fail, a failed send for index i is logged and the
\* batch goes on: every index 0..99 is attempted exactly once (the k-th
\* attempt carries index k-1 and there are 100 attempts), and the records
\* are exactly the indices whose send succeeded.
C2_FailuresArePerItem ==
    /\ InSendLoop => Len(sent) = i
    /\ SendLoopFinished => Len(sent) = NumTransactions
    /\ (InSendLoop \/ AfterSendLoop) =>
         /\ \A k \in 1 .. Len(sent) :
              LittleEndian8(sent[k].transaction.instruction_data, k - 1)
         /\ RecordIndices = SucceededIndices
         /\ Len(signatures) = Cardinality(SucceededIndices)
    /\ (InSendLoop /\ i > 0 /\ ~sent[i].answer.ok) =>
         /\ Len(emitted) = 1
         /\ emitted[1].level = "warn"
         /\ emitted[1].args[1] = i - 1
C2_Witness ==
    /\ pc = "done"
    /\ Len(sent) = NumTransactions
    /\ ~sent[1].answer.ok
    /\ sent[2].answer.ok
    /\ ~sent[NumTransactions].answer.ok
    /\ Len(signatures) = NumTransactions - 2

\* C6: the funding loop is left only on a balance read that returned a
\* value above zero; before that no blockhash is fetched and nothing is sent.
InFundingOrBefore ==
    pc \in {"resolve_program", "resolve_programdata", "size_match",
            "request_airdrop", "confirm", "get_balance"}
C6_FundedBeforeBatch ==
    /\ (pc = "get_blockhash" \/ blockhash_fetches > 0 \/ sent # <<>>) =>
         (IsSome(balance) /\ Unwrap(balance) > 0)
    /\ InFundingOrBefore => (blockhash_fetches = 0 /\ sent = <<>>)
C6_Witness ==
    pc = "send" /\ i = 1 /\ IsSome(balance) /\ Unwrap(balance) > 0

\* C7: the latest blockhash is fetched exactly once per batch, before the
\* first send; all 100 transactions carry that blockhash; no fetch happens
\* between the sends or after them.
C7_OneBlockhash ==
    /\ blockhash_fetches <= 1
    /\ (InSendLoop \/ SendLoopFinished) => blockhash_fetches = 1
    /\ sent # <<>> => blockhash_fetches = 1
    /\ SendLoopFinished => Len(sent) = NumTransactions
    /\ (InSendLoop \/ AfterSendLoop) =>
         \A k \in 1 .. Len(sent) :
           sent[k].transaction.recent_blockhash = Unwrap(recent_blockhash)
C7_Witness ==
    pc = "done" /\ Len(sent) = NumTransactions /\ blockhash_fetches = 1
        /\ recent_blockhash = Some("hashB")

\* The verification of the current record has just ended.
ItemFinished == pc = "verify_next" /\ IsSome(current)
EveryLookupFailed == \A k \in 1 .. Len(lookups) : ~lookups[k]
\* Some log line of the last step names the record with this index (the
\* code prints an item as i or as i + 1).
LineAbout(index) ==
    \E n \in 1 .. Len(emitted) :
        /\ emitted[n].args # <<>>
        /\ emitted[n].args[1] \in {index, index + 1}

\* The parts of C3 that are about attempts and sleeps (they hold): a record
\* whose lookups all fail gets exactly 10 of them, and every failed lookup
\* is followed by a 50 ms sleep.
AttemptsAndSleeps ==
    /\ (pc = "lookup" /\ lookups # <<>>) => slept = RetrySleepMs
    /\ (ItemFinished /\ EveryLookupFailed) =>
         /\ Len(lookups) = MaxRetries
         /\ item_slept = MaxRetries * RetrySleepMs
         /\ tx_details = None

\* C3: for a record whose lookup fails on every attempt the verifier makes
\* exactly 10 attempts, sleeps 50 ms between consecutive attempts, and then
\* reports the item as not found.
C3_ExhaustsAndReports ==
    /\ AttemptsAndSleeps
    /\ (ItemFinished /\ EveryLookupFailed) => LineAbout(Unwrap(current)[1])

\* C4: the verifier stops at the first successful lookup: no lookup follows
\* a successful one, a record whose k-th lookup is the first to succeed gets
\* exactly k lookups, the loop ends otherwise only after 10 failures, and the
\* item counts as found exactly when a lookup succeeded, whatever the
\* on-chain result of the instruction.
C4_StopsAtFirstSuccess ==
    /\ Len(lookups) <= MaxRetries
    /\ \A k \in 1 .. Len(lookups) : lookups[k] => k = Len(lookups)
    /\ pc = "lookup" => (EveryLookupFailed /\ Len(lookups) < MaxRetries)
    /\ ItemFinished =>
         /\ lookups # <<>>
         /\ IsSome(tx_details) <=> lookups[Len(lookups)]
         /\ EveryLookupFailed => Len(lookups) = MaxRetries
         /\ retries = MaxRetries - Cardinality({k \in 1 .. Len(lookups) : ~lookups[k]})
C4_Witness ==
    /\ ItemFinished
    /\ lookups = <<FALSE, FALSE, TRUE>>
    /\ IsSome(tx_details)
    /\ IsSome(Unwrap(tx_details).meta)
    /\ Unwrap(Unwrap(tx_details).meta).err

\* C5: every verified record gets exactly one reported outcome: found with
\* compute units (the value is reported), found without compute units
\* (reported as not available), or not found after the retries (reported as
\* not found, never as not available).
ComputeUnitsOf(details) ==
    IF IsSome(details) /\ IsSome(Unwrap(details).meta)
           /\ Unwrap(Unwrap(details).meta).compute_units_consumed[1] = "Some"
    THEN Some(Unwrap(Unwrap(details).meta).compute_units_consumed[2])
    ELSE None
C5_OneReportPerItem ==
    ItemFinished =>
        /\ Len(emitted) = 1
        /\ LineAbout(Unwrap(current)[1])
        /\ IF IsSome(ComputeUnitsOf(tx_details))
           THEN /\ emitted[1].msg = "Transaction {} (counter: {}): Compute Units used: {}"
                /\ emitted[1].args[3] = Unwrap(ComputeUnitsOf(tx_details))
           ELSE IF IsSome(tx_details)
           THEN emitted[1].msg = "Transaction {}: Compute units not available"
           ELSE emitted[1].msg # "Transaction {}: Compute units not available"

\* C8: the record list holds pairwise distinct indices in strictly
\* increasing order, each the batch position of the instruction the record
\* was sent for; no step changes or removes a record once appended; the
\* verifier takes each record exactly once, in order.
C8_RecordsInvariant ==
    /\ consumed <= Len(signatures)
    /\ pc = "done" => consumed = Len(signatures)
    /\ IsSome(current) => (consumed > 0 /\ Unwrap(current) = signatures[consumed])
    /\ (InSendLoop \/ AfterSendLoop) =>
         /\ \A j, k \in 1 .. Len(signatures) :
              j < k => signatures[j][1] < signatures[k][1]
         /\ \A k \in 1 .. Len(signatures) :
              LET index == signatures[k][1]
              IN /\ index + 1 \in 1 .. Len(sent)
                 /\ sent[index + 1].answer = Ok(signatures[k][2])
                 /\ LittleEndian8(sent[index + 1].transaction.instruction_data, index)
C8_RecordsStep ==
    /\ Len(signatures') >= Len(signatures)
    /\ SubSeq(signatures', 1, Len(signatures)) = signatures
    /\ consumed' \in {consumed, consumed + 1}
    /\ consumed' = consumed + 1 <=> (pc = "verify_next" /\ pc' = "lookup")
    /\ consumed' = consumed + 1 => current' = Some(signatures[consumed + 1])
    /\ consumed' = consumed => (current' = current \/ current' = None)
C8_Records == [](C8_RecordsInvariant) /\ [][C8_RecordsStep]_vars
C8_Witness ==
    /\ pc = "done"
    /\ consumed = NumTransactions - 1
    /\ Len(signatures) = NumTransactions - 1
    /\ signatures[1][1] = 1

\* C9: for an account owned by the immutable loader the resolver returns
\* (n, n), n the length of the account's data, after exactly one account
\* fetch and without decoding a loader state.
C9_ImmutableLoader ==
    /\ (pc = "size_match" /\ IsSome(program_account)
            /\ Unwrap(program_account).owner = BpfLoaderId) =>
         /\ IsSome(size_result)
         /\ Unwrap(size_result).ok
         /\ LittleEndian8(Unwrap(size_result).val[1], Len(Unwrap(program_account).data))
         /\ LittleEndian8(Unwrap(size_result).val[2], Len(Unwrap(program_account).data))
         /\ fetches = <<ProgramPubkey>>
         /\ decodes = 0
         /\ program_data_account = None
    /\ pc = "resolve_programdata" => Unwrap(program_account).owner # BpfLoaderId
C9_Witness ==
    /\ pc = "size_match"
    /\ IsSome(program_account)
    /\ Unwrap(program_account).owner = BpfLoaderId
    /\ Unwrap(program_account).data = <<127, 69, 76, 70, 0, 0>>
    /\ IsSome(size_result)

\* The resolver took the upgradeable path to its end: the program account
\* decodes as Program and the programdata account as ProgramData.
DecodesAs(account, variant) ==
    /\ IsSome(account)
    /\ Deserialize(Unwrap(account).data).ok
    /\ Deserialize(Unwrap(account).data).val.variant = variant
UpgradeablePathTaken ==
    /\ IsSome(program_account)
    /\ Unwrap(program_account).owner = BpfLoaderUpgradeableId
    /\ DecodesAs(program_account, "Program")
    /\ DecodesAs(program_data_account, "ProgramData")

\* C10: for an upgradeable program account that decodes as Program and whose
\* programdata account decodes as ProgramData, the resolver returns
\* total_account_size = the programdata account's data length and
\* program_bytecode_size = total_account_size - the metadata header size.
C10_UpgradeableSizes ==
    UpgradeablePathTaken =>
        LET total == Len(Unwrap(program_data_account).data)
        IN /\ pc = "size_match"
           /\ IsSome(size_result)
           /\ Unwrap(size_result).ok
           /\ LittleEndian8(Unwrap(size_result).val[2], total)
           /\ total >= ProgramdataMetadataSize
           /\ LittleEndian8(Unwrap(size_result).val[1], total - ProgramdataMetadataSize)

\* What does hold of that path: whenever the programdata account is at
\* least as long as the metadata header, C10's sizes are returned.
UpgradeableSizesWhenLongEnough ==
    (UpgradeablePathTaken
        /\ Len(Unwrap(program_data_account).data) >= ProgramdataMetadataSize) =>
        LET total == Len(Unwrap(program_data_account).data)
        IN /\ pc = "size_match"
           /\ Unwrap(size_result).ok
           /\ LittleEndian8(Unwrap(size_result).val[2], total)
           /\ LittleEndian8(Unwrap(size_result).val[1], total - ProgramdataMetadataSize)

\* The error the resolver returns for an account owned by neither loader.
UnsupportedOwnerError == StrError("Not a BPF program")
OwnedByNeitherLoader(account) ==
    /\ IsSome(account)
    /\ Unwrap(account).owner \notin {BpfLoaderId, BpfLoaderUpgradeableId}

\* C11: for an account owned by neither loader the resolver fails with the
\* unsupported-owner error, without decoding the account's bytes and
\* without a second account fetch.
C11_UnsupportedOwner ==
    /\ (pc = "size_match" /\ OwnedByNeitherLoader(program_account)) =>
         /\ size_result = Some(Err(UnsupportedOwnerError))
         /\ decodes = 0
         /\ fetches = <<ProgramPubkey>>
         /\ programdata_address = None
         /\ program_data_account = None
    /\ OwnedByNeitherLoader(program_account) => pc = "size_match"
C11_Witness ==
    /\ pc = "size_match"
    /\ OwnedByNeitherLoader(program_account)
    /\ DecodesAs(program_account, "Program")
    /\ size_result = Some(Err(UnsupportedOwnerError))

\* Variants a loader record can decode to.
DecodesAsOtherThan(account, variant) ==
    /\ IsSome(account)
    /\ Deserialize(Unwrap(account).data).ok
    /\ Deserialize(Unwrap(account).data).val.variant # variant
OwnedByUpgradeableLoader ==
    IsSome(program_account) /\ Unwrap(program_account).owner = BpfLoaderUpgradeableId
InvalidStateMessages == {"Not a program account", "Invalid program data account"}

\* C12: when the upgradeable loader's account decodes to a variant other
\* than Program, or its programdata account to a variant other than
\* ProgramData, the resolver fails with an invalid-account-state error that
\* differs from the unsupported-owner error; in the first case the
\* programdata account is never fetched.
C12_InvalidAccountState ==
    /\ (OwnedByUpgradeableLoader /\ DecodesAsOtherThan(program_account, "Program")) =>
         /\ pc = "size_match"
         /\ size_result = Some(Err(StrError("Not a program account")))
         /\ Unwrap(size_result).val # UnsupportedOwnerError
         /\ fetches = <<ProgramPubkey>>
         /\ program_data_account = None
    /\ (OwnedByUpgradeableLoader
            /\ DecodesAsOtherThan(program_data_account, "ProgramData")) =>
         /\ pc = "size_match"
         /\ size_result = Some(Err(StrError("Invalid program data account")))
         /\ Unwrap(size_result).val # UnsupportedOwnerError
         /\ DecodesAs(program_account, "Program")
C12_Witness ==
    /\ pc = "size_match"
    /\ OwnedByUpgradeableLoader
    /\ DecodesAs(program_account, "Program")
    /\ DecodesAs(program_data_account, "Buffer")
    /\ size_result = Some(Err(StrError("Invalid program data account")))

\* ---- C13
\* The resolver has returned an error to its caller.
ResolverFailed == pc = "size_match" /\ ~Unwrap(size_result).ok

\* The account fetches the resolver has to make to get as far as it got: the
\* program account, and the programdata account once the first record has
\* decoded as Program under the upgradeable loader.
FetchesNeeded ==
    IF OwnedByUpgradeableLoader /\ DecodesAs(program_account, "Program")
    THEN <<ProgramPubkey, Unwrap(programdata_address)>>
    ELSE <<ProgramPubkey>>

\* The four kinds of failure the resolver has.
FailureKind ==
    IF Unwrap(size_result).val = ClientError THEN "fetch"
    ELSE IF Unwrap(size_result).val = BincodeError THEN "decode"
    ELSE IF Unwrap(size_result).val = UnsupportedOwnerError THEN "owner"
    ELSE IF Unwrap(size_result).val \in {StrError(m) : m \in InvalidStateMessages}
    THEN "variant"
    ELSE "other"

C13_ReturnsAtOnce ==
    /\ ResolverFailed =>
          /\ FailureKind \in {"fetch", "decode", "owner", "variant"}
          /\ fetches = FetchesNeeded
          /\ decodes <= Len(fetches)
          /\ emitted = <<>>
    /\ pc = "request_airdrop" =>
          /\ fundingVars = <<None, None, None>>
          /\ ENABLED RequestAirdrop

C13_WarnsAndGoesOn ==
    ResolverFailed =>
        /\ pc' = "request_airdrop"
        /\ emitted' = <<Warn("Failed to get program size: {}",
                              <<Unwrap(size_result).val>>)>>
        /\ UNCHANGED <<fundingVars, batchVars, verifyVars>>

\* C13: whatever makes the program-size resolver fail (a failed account
\* fetch, a record that does not decode, a record of the wrong variant, an
\* owner that is no loader), it has then made each fetch it needed exactly
\* once and none again, its caller's next step writes the error as one
\* warning line, and that step leaves the flow at the airdrop request, which
\* is enabled, with the funding, batch and verification state untouched.
C13_ResolverFailureIsNotFatal == [](C13_ReturnsAtOnce) /\ [][C13_WarnsAndGoesOn]_vars

\* A resolution that failed on an account fetch has been logged as a warning
\* and the flow is at the airdrop request.
C13_Witness ==
    /\ pc = "request_airdrop"
    /\ failure = Some(Failed("get_program_size", ClientError))
    /\ emitted = <<Warn("Failed to get program size: {}", <<ClientError>>)>>

\* ---- C14
\* The node calls whose failure the flow handles and carries on from.
HandledCalls ==
    {"get_program_size", "confirm_transaction", "get_balance", "send_transaction",
     "get_transaction"}
FailedCall(call) == IsSome(failure) /\ Unwrap(failure).call = call

\* The failed calls that do get a line: a failed send is written with its
\* index and its error, a failed size resolution with its error.
FailedSendsAndResolutionsAreLogged ==
    /\ FailedCall("send_transaction") =>
          emitted = <<Warn("Failed to send transaction {}: {}",
                           <<i - 1, Unwrap(failure).error>>)>>
    /\ FailedCall("get_program_size") =>
          emitted = <<Warn("Failed to get program size: {}",
                           <<Unwrap(failure).error>>)>>

\* C14: whenever a step of the flow has dealt with a failed node call (a
\* send, a transaction lookup, a confirmation check, a balance read, a size
\* resolution), that step has written a log line carrying the error.
C14_EveryFailureLogged ==
    (IsSome(failure) /\ Unwrap(failure).call \in HandledCalls) =>
        \E n \in 1 .. Len(emitted) :
            \E a \in 1 .. Len(emitted[n].args) :
                emitted[n].args[a] = Unwrap(failure).error

\* ---- C15
\* Byte k (1 = least significant) of a u64 kept as four 16-bit limbs.
U64Byte(value, k) ==
    LET limb == value[4 - ((k - 1) \div 2)]
    IN IF k % 2 = 1 THEN limb % 256 ELSE limb \div 256
CounterDecoded == program_pc \in {"decoded", "logged", "returned"}

\* C15: once process_instruction has decoded its counter, the counter is the
\* u64 whose k-th least significant byte is the k-th byte of the payload
\* (k = 1..8) when the payload has at least 8 bytes, whatever follows them,
\* and is 0 when the payload has fewer than 8 bytes; the logged value is
\* that counter.
C15_CounterDecoding ==
    /\ CounterDecoded <=> IsSome(counter)
    /\ CounterDecoded =>
          IF Len(instruction_data) >= 8
          THEN \A k \in 1 .. 8 : U64Byte(Unwrap(counter), k) = instruction_data[k]
          ELSE \A k \in 1 .. 8 : U64Byte(Unwrap(counter), k) = 0
    /\ program_log # <<>> => program_log[1].args = <<Unwrap(counter)>>

\* A 9-byte payload 01 00 .. 00 ff | ff has been decoded to 0xff00000000000001.
C15_Witness ==
    /\ program_pc = "returned"
    /\ instruction_data = <<1, 0, 0, 0, 0, 0, 0, 255, 255>>
    /\ counter = Some(<<65280, 0, 0, 1>>)

\* ---- C16
C16_NeverFails ==
    /\ program_pc # "panicked"
    /\ program_pc \in {"entry", "decoded", "logged"} => ENABLED ProgramNext
    /\ program_pc = "returned" <=> program_result = Some(Ok(<<>>))
    /\ program_result \in {None, Some(Ok(<<>>))}
    /\ account_accesses = {}
C16_TouchesNoAccount == accounts' = accounts /\ account_accesses' = account_accesses

\* C16: for every payload and every account list process_instruction runs
\* to its return without panicking, what it returns is Ok(()), and no step
\* of it reads or writes an account.
C16_AlwaysSucceeds == [](C16_NeverFails) /\ [][C16_TouchesNoAccount]_vars

\* A 7-byte payload with one account passed has returned Ok(()).
C16_Witness ==
    /\ program_pc = "returned"
    /\ Len(instruction_data) = 7
    /\ accounts # <<>>
    /\ program_result = Some(Ok(<<>>))

\* ---- C17
\* A transaction lookup has been issued, or is about to be.
InVerification == pc = "lookup" \/ lookups # <<>> \/ consumed > 0 \/ IsSome(current)

C17_SendsBeforeLookups ==
    /\ InSendLoop =>
          /\ Len(sent) = i
          /\ slept = 0
          /\ lookups = <<>> /\ consumed = 0 /\ current = None
          /\ tx_details = None /\ item_slept = 0
    /\ InVerification => Len(sent) = NumTransactions
    /\ (InSendLoop \/ AfterSendLoop) =>
          \A k \in 1 .. Len(sent) :
              LittleEndian8(sent[k].transaction.instruction_data, k - 1)
    /\ \A n \in 1 .. Len(lookups) - 1 : ~lookups[n]
    /\ pc = "lookup" => Len(lookups) = MaxRetries - retries

C17_OneAtATime ==
    /\ sent' # sent =>
          /\ Len(sent') = Len(sent) + 1
          /\ SubSeq(sent', 1, Len(sent)) = sent
          /\ slept' = 0
          /\ lookups' = <<>>
    /\ (lookups' # lookups /\ lookups' # <<>>) =>
          /\ Len(lookups') = Len(lookups) + 1
          /\ SubSeq(lookups', 1, Len(lookups)) = lookups
          /\ lookups # <<>> => ~lookups[Len(lookups)]
          /\ sent' = sent

\* C17: each send step adds one attempt, the k-th attempt carrying index
\* k-1, without sleeping and without any lookup made so far; a lookup is
\* made only when all 100 sends have been attempted; and each lookup for a
\* record is made only after all earlier lookups for it have failed.
C17_BatchThenVerify == [](C17_SendsBeforeLookups) /\ [][C17_OneAtATime]_vars

\* The first record is being looked up for the third time, after 100 sends.
C17_Witness ==
    /\ pc = "lookup"
    /\ consumed = 1
    /\ lookups = <<FALSE, FALSE>>
    /\ Len(sent) = NumTransactions

\* ---- C18
\* The part of C18 that is about the sleep (it holds): an iteration of the
\* funding poll that does not leave the loop sleeps 100 ms before the next.
FundingPollSleeps ==
    [][(pc \in {"confirm", "get_balance"} /\ pc' = "confirm") => slept' = PollSleepMs]_vars

\* C18: the balance is read only in an iteration whose confirmation check
\* reported the airdrop's signature as confirmed.
C18_BalanceOnlyIfConfirmed ==
    pc = "get_balance" => confirm_result = Some(Ok(TRUE))

\* ---- C19
FlowEnded == pc \in {"done", "panicked"}

\* C19: when every node call returns and the confirmation check and the
\* balance read eventually succeed with a balance above zero, the funding
\* loop is left and the flow ends; on the way there are never more than 100
\* sends nor more than 10 lookups for one record.
C19_Terminates ==
    /\ <>FlowEnded
    /\ [](Len(sent) <= NumTransactions /\ Len(lookups) <= MaxRetries)

\* The flow has ended after 100 sends, one of them refused, and the
\* verification of all 99 records.
C19_Witness ==
    /\ pc = "done"
    /\ Len(sent) = NumTransactions
    /\ Len(signatures) = NumTransactions - 1
    /\ consumed = Len(signatures)

\* ---- C20
\* a <= b for two usize values kept as little-endian bytes.
LeBytesLeq(a, b) ==
    \/ a = b
    \/ \E j \in 1 .. Len(a) :
         /\ a[j] < b[j]
         /\ \A k \in (j + 1) .. Len(a) : a[k] = b[k]

\* C20: whenever the programdata account has decoded as ProgramData, the
\* resolver has not panicked and has returned sizes with
\* program_bytecode_size <= total_account_size.
C20_NoUnderflow ==
    DecodesAs(program_data_account, "ProgramData") =>
        /\ pc = "size_match"
        /\ Unwrap(size_result).ok
        /\ LeBytesLeq(Unwrap(size_result).val[1], Unwrap(size_result).val[2])
====
